---- MODULE Spec2Model ----
(***************************************************************************)
(* Request lifecycle of the e-commerce backend: the token guard, the       *)
(* upload intake, the validation chains and the product, listing and login *)
(* handlers, with the product collection and the remote asset store as the *)
(* only shared state.  Every await of a handler is a point where another   *)
(* request may run, so every await that touches shared state is an action. *)
(***************************************************************************)
EXTENDS Integers, Sequences, FiniteSets, TLC

\* ------------------------------------------------------------------ bounds
MaxReq == 2        \* requests issued in one behaviour
MaxFieldReq == 1   \* requests issued in one behaviour of SpecFields
MaxListReq == 1    \* requests issued in one behaviour of SpecList
MaxSeed == 1       \* products already stored when the server starts
MaxListSeed == 3   \* products already stored when SpecList starts
MaxQuery == 2      \* largest magnitude of a numeric page / perPage query value

\* ------------------------------------------------------- program constants
DefaultPage == 1
DefaultLimit == 10

Reqs == 1..MaxReq

\* ------------------------------------------------------------- data model
TextFields == {"name", "title", "description"}
NumFields == {"price", "quantity"}
Fields == TextFields \cup {"category_id"} \cup NumFields

\* Values a body field can carry.  "absent" is a field missing from the
\* request, "" the empty string, "bad" a malformed value (not a number, not
\* an object id), "long" a number of six digits, "nocat" a well-formed object
\* id that names no category; the members of Values are well-formed values.
\* The three text fields go through the same code; the empty string is tried
\* on the first of them.
Values == {"a"}
SeedValue == "s"

Categories == Values \cup {SeedValue}

Domain(f) ==
    IF f = "name" THEN {"absent", ""} \cup Values
    ELSE IF f \in TextFields THEN {"absent"} \cup Values
    ELSE IF f = "category_id" THEN {"absent", "", "bad", "nocat"} \cup Values
    ELSE {"absent", "", "bad", "long"} \cup Values

\* Request bodies: every field carries `base`, except at most one field that
\* carries any value of its domain.
BodiesFrom(base) ==
    UNION {{[g \in Fields |-> IF g = f THEN x ELSE base] : x \in Domain(f)} : f \in Fields}

Bodies == UNION {BodiesFrom(base) : base \in {"absent"} \cup Values}

NoBody == [f \in Fields |-> "absent"]

\* The bodies tried by Spec: a complete one and one that fails validation.
FewBodies == {[f \in Fields |-> "a"], [[f \in Fields |-> "a"] EXCEPT !["price"] = "long"]}

\* A remote asset URL: host, folder, asset name, extension.
Url(batch, kind) == <<"res.cloudinary.com", "CloudinaryDemo", <<batch, kind>>, "jpg">>

\* The public id is the last two path segments, the extension stripped.
getPublicIdFromUrl(url) == <<url[Len(url) - 2], url[Len(url) - 1]>>

NoDoc == [name |-> "none"]

SeedDoc(i) ==
    [name |-> SeedValue, title |-> SeedValue, description |-> SeedValue,
     category_id |-> (IF i % 2 = 1 THEN SeedValue ELSE "a"),
     price |-> SeedValue, quantity |-> SeedValue,
     image |-> Url(0 - i, "image"), thumbnail_image |-> Url(0 - i, "thumb")]

\* ------------------------------------------------------------------ users
Users == {[id |-> "u1", email |-> "ann@x", password |-> "pw1"],
          [id |-> "u2", email |-> "bob@x", password |-> "pw2"]}

\* ------------------------------------------------------------ token guard
NoHeader == [scheme |-> "none", token |-> "none"]

Headers ==
    {NoHeader,
     [scheme |-> "Bearer ", token |-> ""],
     [scheme |-> "Bearer ", token |-> "forged"],
     [scheme |-> "Bearer ", token |-> "jwt:u1"],
     [scheme |-> "Bearer ", token |-> "jwt:u9"]}

\* req.header('Authorization')?.replace('Bearer ', '')
BearerToken(h) == IF h = NoHeader THEN "undefined" ELSE h.token

Falsy(x) == x \in {"undefined", "absent", ""}

\* jwt.verify: the claim the token carries, or "throw".
jwtVerify(token) ==
    IF token = "jwt:u1" THEN "u1"
    ELSE IF token = "jwt:u9" THEN "u9"
    ELSE "throw"

\* -------------------------------------------------------------- responses
NoResp == [status |-> 0, message |-> "none", error |-> "none", token |-> "none"]

Resp(status, message) == [NoResp EXCEPT !.status = status, !.message = message]

RespErr(status, message, error) == [Resp(status, message) EXCEPT !.error = error]

RespToken(status, message, token) == [Resp(status, message) EXCEPT !.token = token]

\* ------------------------------------------------------- validation layer
\* The message of the first failing rule of a field on create, "ok" if none.
CreateFieldError(f, v) ==
    IF f \in TextFields THEN
        IF Falsy(v) THEN "required" ELSE "ok"
    ELSE IF f = "category_id" THEN
        IF Falsy(v) THEN "Category ID is required"
        ELSE IF v = "bad" THEN "Invalid category ID"
        ELSE IF v \notin Categories THEN "Category not found"
        ELSE "ok"
    ELSE
        IF Falsy(v) THEN "required"
        ELSE IF v = "bad" THEN "must be a number"
        ELSE IF v = "long" THEN "must be less than 100000"
        ELSE "ok"

\* On update every rule is optional(): an absent field is skipped, an empty
\* string is not.
UpdateFieldError(f, v) ==
    IF v = "absent" THEN "ok"
    ELSE IF f \in TextFields THEN "ok"
    ELSE IF f = "category_id" THEN
        IF v \in {"", "bad"} THEN "Invalid category ID"
        ELSE IF v \notin Categories THEN "Category not found"
        ELSE "ok"
    ELSE
        IF v \in {"", "bad"} THEN "must be a number"
        ELSE IF v = "long" THEN "must be less than 100000"
        ELSE "ok"

\* validationResult(req) reduced to a map from field to its first message.
validateProduct(body) ==
    [f \in {g \in Fields : CreateFieldError(g, body[g]) # "ok"} |->
        CreateFieldError(f, body[f])]

validateProductUpdate(body) ==
    [f \in {g \in Fields : UpdateFieldError(g, body[g]) # "ok"} |->
        UpdateFieldError(f, body[f])]

NoErrors == [f \in {} |-> "ok"]

\* param('id').isMongoId(): 0 stands for a malformed identifier.
isMongoId(id) == id # 0

validateId(id) == IF isMongoId(id) THEN NoErrors ELSE [f \in {"id"} |-> "Invalid product ID"]

\* ----------------------------------------------------------- upload intake
NoFile == "none"
Files == {NoFile, "image/jpeg", "image/png", "image/gif", "corrupt"}
\* The files tried by SpecFields.
FewFiles == {NoFile, "image/jpeg"}
allowedMimeTypes == {"image/jpeg", "image/png", "corrupt"}
\* "corrupt" is a file declared image/jpeg whose bytes sharp cannot decode.
sharpFails(file) == file = "corrupt"

UploadOutcomes == {"ok", "LIMIT_FILE_SIZE", "LIMIT_UNEXPECTED_FILE", "stream error"}

\* ---------------------------------------------------------------- listing
\* A page or perPage query value: missing, not a number, a decimal, or an
\* integer.
Absent == [t |-> "absent", n |-> 0]

QueryValues ==
    {Absent, [t |-> "text", n |-> 0], [t |-> "decimal", n |-> 2]}
        \cup {[t |-> "integer", n |-> n] : n \in (0 - MaxQuery)..MaxQuery}

\* parseInt: NaN for what holds no leading integer, the integer part
\* otherwise.
parseInt(x) == [nan |-> x.t \in {"absent", "text"}, n |-> x.n]

\* parseInt(x) || d: NaN and 0 are falsy.
OrDefault(p, d) == IF p.nan \/ p.n = 0 THEN d ELSE p.n

\* Math.ceil(t / l) for t >= 0 and l # 0.
MathCeilDiv(t, l) == IF l > 0 THEN (t + l - 1) \div l ELSE 0 - (t \div (0 - l))

NoQuery == [page |-> Absent, perPage |-> Absent, name |-> "absent", category |-> "absent"]

\* name is a pattern ("(" does not compile), category an identifier ("bad"
\* is malformed).
Queries ==
    [page : QueryValues, perPage : QueryValues,
     name : {"absent", "S", "("}, category : {"absent", "a", "bad"}]

Lower(x) == IF x = "S" THEN "s" ELSE IF x = "A" THEN "a" ELSE x

\* { name: { $regex, $options: 'i' }, category_id }: names here are one
\* letter long, so a pattern of one letter is found in a name iff it is that
\* name up to case.
Matches(doc, query) ==
    /\ query.name # "absent" => Lower(query.name) = Lower(doc.name)
    /\ query.category # "absent" => query.category = doc.category_id

QueryThrows(query) == query.name = "(" \/ query.category = "bad"

\* The identifiers of `ids` in ascending order.
RECURSIVE Sorted(_)
Sorted(ids) ==
    IF ids = {} THEN <<>>
    ELSE LET m == CHOOSE x \in ids : \A y \in ids : x <= y
         IN  <<m>> \o Sorted(ids \ {m})

\* .skip(k).limit(l): a negative limit is taken by its magnitude.
Page(seq, skip, limit) ==
    LET l == IF limit < 0 THEN 0 - limit ELSE limit
    IN  SubSeq(seq, skip + 1, IF skip + l < Len(seq) THEN skip + l ELSE Len(seq))

\* ------------------------------------------------------------------ login
NoCred == [email |-> "absent", password |-> "absent"]

Creds == [email : {"", "ann@x", "bob@x", "eve@x"}, password : {"", "pw1", "pw2"}]

\* validateuser: both fields notEmpty.
validateuser(cred) ==
    [f \in {g \in {"email", "password"} : Falsy(cred[g])} |-> "required"]

\* jwt.sign({ userId }): the token jwtVerify decodes to that user.
jwtSign(userId) == IF userId = "u1" THEN "jwt:u1" ELSE "jwt:u2"

\* ------------------------------------------------------------------ state
VARIABLES
    reqs,       \* per request: its inputs, its position and its locals
    products,   \* the product collection: id -> document
    nextId,     \* the next identifier the store assigns
    assets,     \* public ids present in the remote asset store
    last,       \* the request answered by the latest step, as it stood then
    deleted,    \* identifiers a DELETE has answered 200 for
    failed      \* requests one of whose derivative uploads was rejected

vars == <<reqs, products, nextId, assets, last, deleted, failed>>

Guarded == {"create", "update", "delete", "me"}

Idle ==
    [n |-> 0, kind |-> "none", pc |-> "idle", hdr |-> NoHeader, user |-> "none",
     steps |-> <<>>, intake |-> "none", file |-> NoFile, body |-> NoBody,
     errors |-> NoErrors, id |-> 0, doc |-> NoDoc, mod |-> {},
     up |-> [image |-> "none", thumb |-> "none"],
     gone |-> [image |-> "none", thumb |-> "none"],
     cred |-> NoCred, query |-> NoQuery, page |-> 0, limit |-> 0, total |-> 0,
     pages |-> 0, found |-> <<>>, resp |-> NoResp, nresp |-> 0]

\* res.status(..).json(..): the handler returns.
Respond(q, stage, response) ==
    [q EXCEPT !.pc = "done", !.steps = Append(q.steps, stage),
              !.resp = response, !.nresp = q.nresp + 1]

Step(q, stage, pc) == [q EXCEPT !.pc = pc, !.steps = Append(q.steps, stage)]

\* What is left of a request once it is answered: its locals are gone.
Finished(q) == [Idle EXCEPT !.n = q.n, !.kind = q.kind, !.pc = "done", !.nresp = q.nresp]

\* Request r moves to q; if the step answered it, `last` shows the answer
\* until the next step.
Commit(r, q) ==
    /\ reqs' = [reqs EXCEPT ![r] = IF q.pc = "done" THEN Finished(q) ELSE q]
    /\ last' = IF q.pc = "done" THEN q ELSE Idle

\* The middleware chain before the first await on shared state reads and
\* writes the request alone, no route writes a user, and the two uploads add
\* assets that no other request names: these steps commute with every step
\* of another request, so they are run without interleaving.
LocalPcs == {"auth", "intake", "validate", "handler", "user", "upload"}
Turn(r) == \A s \in Reqs \ {r} : reqs[s].pc \notin LocalPcs

Stored(id) == id \in DOMAIN products

\* The identifiers a request may name: a malformed one, every identifier the
\* store has assigned and the one it assigns next.
IdParams == 0..nextId

SeedStore(n) == [i \in 1..n |-> SeedDoc(i)]

SeedAssets(n) ==
    UNION {{getPublicIdFromUrl(SeedDoc(i).image),
            getPublicIdFromUrl(SeedDoc(i).thumbnail_image)} : i \in 1..n}

InitWith(n) ==
    /\ reqs = [r \in Reqs |-> Idle]
    /\ products = SeedStore(n)
    /\ nextId = n + 1
    /\ assets = SeedAssets(n)
    /\ last = Idle
    /\ deleted = {}
    /\ failed = {}

Init == \E n \in 0..MaxSeed : InitWith(n)

\* The store holding MaxSeed products (it is emptied by deletes).
InitSeeded == InitWith(MaxSeed)

\* ------------------------------------------------------------ the routes
FirstStage(kind) ==
    IF kind \in Guarded THEN "auth" ELSE IF kind = "list" THEN "count" ELSE "validate"

\* A request arrives on the route `kind`.
Receive(r, kind) ==
    /\ reqs[r].kind = "none"
    /\ \A s \in Reqs : s < r => reqs[s].kind # "none"
    /\ Turn(r)
    /\ reqs' = [reqs EXCEPT ![r] = [Idle EXCEPT !.n = r, !.kind = kind, !.pc = FirstStage(kind)]]
    /\ last' = Idle
    /\ UNCHANGED <<products, nextId, assets, deleted, failed>>

\* What the guard hands over to: the next middleware of the route.
AfterAuth(kind) ==
    IF kind \in {"create", "update"} THEN "intake"
    ELSE IF kind = "delete" THEN "validate"
    ELSE "user"

\* A handler other than /api/me never reads req.user, so only /api/me is
\* tried with the token of a user that is gone.
HeadersFor(kind) ==
    IF kind = "me" THEN Headers ELSE Headers \ {[scheme |-> "Bearer ", token |-> "jwt:u9"]}

\* The guard with the early return on a missing token left out.
authMiddlewareFallsThrough(q, h) ==
    LET token == BearerToken(h)
        p == [q EXCEPT !.hdr = h]
    IN  IF ~Falsy(token) /\ jwtVerify(token) = "throw"
        THEN Respond(p, "auth", Resp(401, "Invalid token"))
        ELSE Step([p EXCEPT !.user = jwtVerify(token)], "auth", AfterAuth(q.kind))

authMiddleware(q, h) ==
    LET token == BearerToken(h)
        p == [q EXCEPT !.hdr = h]
    IN  IF Falsy(token) THEN Respond(p, "auth", Resp(401, "No token provided"))
        ELSE IF jwtVerify(token) = "throw" THEN Respond(p, "auth", Resp(401, "Invalid token"))
        ELSE Step([p EXCEPT !.user = jwtVerify(token)], "auth", AfterAuth(q.kind))

Authenticate(r) ==
    /\ reqs[r].pc = "auth"
    /\ \E h \in HeadersFor(reqs[r].kind) : Commit(r, authMiddleware(reqs[r], h))
    /\ UNCHANGED <<products, nextId, assets, deleted, failed>>

\* multer's callback: a size error and an unknown error answer here; any
\* other MulterError answers nothing and falls through to next().  multer
\* raises LIMIT_UNEXPECTED_FILE before it accepts the file, so req.file stays
\* unset on that path.
handleUpload(q, outcome, file) ==
    LET p == [q EXCEPT !.intake = outcome]
    IN  IF outcome = "LIMIT_FILE_SIZE" THEN
            Respond(p, "intake", RespErr(400, "Image size is too large", "image: File too large"))
        ELSE IF outcome = "stream error" THEN
            Respond(p, "intake", RespErr(500, "Error uploading file", "image: Upload failed"))
        ELSE IF outcome = "ok" THEN
            Step([p EXCEPT !.file = file], "intake", "validate")
        ELSE
            Step(p, "intake", "validate")

HandleUpload(r, files) ==
    /\ reqs[r].pc = "intake"
    /\ \E outcome \in UploadOutcomes, file \in files :
        /\ outcome # "ok" => file = NoFile
        /\ Commit(r, handleUpload(reqs[r], outcome, file))
    /\ UNCHANGED <<products, nextId, assets, deleted, failed>>

\* The validation chain of the route; it records its errors on the request
\* and always calls next().
validated(q, body, id) ==
    IF q.kind = "create" THEN
        Step([q EXCEPT !.body = body, !.errors = validateProduct(body)], "validate", "handler")
    ELSE IF q.kind = "update" THEN
        Step([q EXCEPT !.body = body, !.errors = validateProductUpdate(body)], "validate", "handler")
    ELSE
        Step([q EXCEPT !.id = id, !.errors = validateId(id)], "validate", "handler")

Validate(r, bodies) ==
    /\ reqs[r].pc = "validate"
    /\ reqs[r].kind \in {"create", "update", "delete", "get"}
    /\ IF reqs[r].kind \in {"create", "update"}
       THEN \E body \in bodies : Commit(r, validated(reqs[r], body, 0))
       ELSE \E id \in IdParams : Commit(r, validated(reqs[r], NoBody, id))
    /\ UNCHANGED <<products, nextId, assets, deleted, failed>>

\* ------------------------------------------------------- product handlers
\* The assignments without their if (req.body.f) guards.
assignFieldsUnguarded(doc, body) ==
    [doc |-> [f \in DOMAIN doc |-> IF f \in Fields THEN body[f] ELSE doc[f]],
     mod |-> {f \in Fields : body[f] # doc[f]}]

\* if (req.body.f) product.f = req.body.f, for the six body fields: the
\* loaded document after the assignments and the paths it marks modified (a
\* path is marked when its value changes).
assignFields(doc, body) ==
    [doc |-> [f \in DOMAIN doc |->
                 IF f \in Fields /\ ~Falsy(body[f]) THEN body[f] ELSE doc[f]],
     mod |-> {f \in Fields : ~Falsy(body[f]) /\ body[f] # doc[f]}]

\* document.save() as an upsert: a document that is gone is stored again.
documentUpsert(store, id, doc, mod) ==
    [i \in DOMAIN store \cup {id} |->
        IF i # id THEN store[i]
        ELSE IF id \in DOMAIN store
             THEN [f \in DOMAIN store[i] |-> IF f \in mod THEN doc[f] ELSE store[i][f]]
        ELSE doc]

\* document.save() of a loaded document: one update that sets the modified
\* paths of the stored document with that identifier, if there is one.
documentSave(store, id, doc, mod) ==
    [i \in DOMAIN store |->
        IF i = id THEN [f \in DOMAIN store[i] |-> IF f \in mod THEN doc[f] ELSE store[i][f]]
        ELSE store[i]]

\* sharp re-encodes the file, whatever its type, into two JPEG buffers, and
\* both are handed to an upload stream (Promise.all over the two).
StartUploads(q, stage) ==
    Step([q EXCEPT !.file = "buffers", !.up = [image |-> "pending", thumb |-> "pending"]],
         stage, "upload")

\* POST /api/product/add, from the validation result to the uploads' start.
createHandler(q) ==
    IF q.errors # NoErrors THEN Respond(q, "handler", Resp(400, "Validation failed"))
    ELSE IF q.file = NoFile THEN
        Respond(q, "handler", RespErr(400, "No image file uploaded", "image: No image file uploaded"))
    ELSE IF q.file \notin allowedMimeTypes THEN
        Respond(q, "handler", RespErr(400, "Invalid image format. Only JPEG and PNG are allowed.",
                                      "image: Invalid image format"))
    ELSE IF sharpFails(q.file) THEN Respond(q, "handler", Resp(500, "Error processing upload"))
    ELSE StartUploads(q, "handler")

\* PUT /api/product/:id, DELETE and GET /api/product/:id up to findById.
lookupHandler(q) ==
    IF q.errors # NoErrors THEN Respond(q, "handler", Resp(400, "Validation failed"))
    ELSE Step(q, "handler", "find")

Handler(r) ==
    /\ reqs[r].pc = "handler"
    /\ reqs[r].kind # "login"
    /\ Commit(r, IF reqs[r].kind = "create" THEN createHandler(reqs[r])
                                              ELSE lookupHandler(reqs[r]))
    /\ UNCHANGED <<products, nextId, assets, deleted, failed>>

\* PUT: findById resolves, the body is applied to the loaded document and the
\* new file, if any, is checked and compressed.
updateLoaded(q, id) ==
    IF ~isMongoId(id) THEN Respond([q EXCEPT !.id = id], "find", Resp(500, "Error updating product"))
    ELSE IF ~Stored(id) THEN Respond([q EXCEPT !.id = id], "find", Resp(404, "Product not found"))
    ELSE
        LET p == [q EXCEPT !.id = id,
                           !.doc = assignFields(products[id], q.body).doc,
                           !.mod = assignFields(products[id], q.body).mod]
        IN  IF q.file = NoFile THEN Step(p, "find", "save")
            ELSE IF q.file \notin allowedMimeTypes THEN
                Respond(p, "find", RespErr(400, "Invalid image format. Only JPEG and PNG are allowed.",
                                           "image: Invalid image format"))
            ELSE IF sharpFails(q.file) THEN Respond(p, "find", Resp(500, "Error updating product"))
            ELSE StartUploads(p, "find")

\* The assignments written through to the store as they are made.
storeOnAssignWriteThrough(store, id, body) ==
    IF id \in DOMAIN store
    THEN [store EXCEPT ![id] = assignFields(store[id], body).doc]
    ELSE store

\* findById hands the handler a document of its own: the assignments to it
\* reach the store at save() and not before.
storeOnAssign(store, id, body) == store

UpdateFind(r) ==
    /\ reqs[r].pc = "find"
    /\ reqs[r].kind = "update"
    /\ Turn(r)
    /\ \E id \in IdParams :
        /\ Commit(r, updateLoaded(reqs[r], id))
        /\ products' = storeOnAssign(products, id, reqs[r].body)
    /\ UNCHANGED <<nextId, assets, deleted, failed>>

\* DELETE: findById resolves.
deleteLoaded(q) ==
    IF ~Stored(q.id) THEN Respond(q, "find", Resp(404, "Product not found"))
    ELSE Step([q EXCEPT !.doc = products[q.id]], "find", "destroy_image")

DeleteFind(r) ==
    /\ reqs[r].pc = "find"
    /\ reqs[r].kind = "delete"
    /\ Turn(r)
    /\ Commit(r, deleteLoaded(reqs[r]))
    /\ UNCHANGED <<products, nextId, assets, deleted, failed>>

\* GET /api/product/:id: findById resolves.
getLoaded(q) ==
    IF ~Stored(q.id) THEN Respond(q, "find", Resp(404, "Product not found"))
    ELSE Respond(q, "find", Resp(200, "Product fetched successfully"))

GetFind(r) ==
    /\ reqs[r].pc = "find"
    /\ reqs[r].kind = "get"
    /\ Turn(r)
    /\ Commit(r, getLoaded(reqs[r]))
    /\ UNCHANGED <<products, nextId, assets, deleted, failed>>

\* GET /api/me: User.findById(req.user.userId) resolves.
meLoaded(q) ==
    IF \E u \in Users : u.id = q.user THEN Respond(q, "find", Resp(200, "User found"))
    ELSE Respond(q, "find", Resp(404, "User not found"))

MeFind(r) ==
    /\ reqs[r].pc = "user"
    /\ reqs[r].kind = "me"
    /\ Commit(r, meLoaded(reqs[r]))
    /\ UNCHANGED <<products, nextId, assets, deleted, failed>>

\* ---------------------------------------------------------- image pipeline
Other(kind) == IF kind = "image" THEN "thumb" ELSE "image"

CatchMessage(kind) ==
    IF kind = "create" THEN "Error processing upload"
    ELSE IF kind = "update" THEN "Error updating product"
    ELSE "Error deleting product"

\* The join waiting for both uploads to settle whatever their outcome
\* (Promise.allSettled), the results never looked at.
uploadSettledLax(q, kind, ok) ==
    LET p == [q EXCEPT !.up[kind] = IF ok THEN "ok" ELSE "fail"]
        stage == IF kind = "image" THEN "upload_image" ELSE "upload_thumb"
    IN  IF p.up[Other(kind)] # "pending"
        THEN Step(p, stage, IF q.kind = "create" THEN "save" ELSE "destroy_image")
        ELSE Step(p, stage, "upload")

\* One upload stream settles.  Promise.all rejects on the first failure and
\* the handler answers 500; it resolves when both have succeeded.
uploadSettled(q, kind, ok) ==
    LET p == [q EXCEPT !.up[kind] = IF ok THEN "ok" ELSE "fail"]
        stage == IF kind = "image" THEN "upload_image" ELSE "upload_thumb"
    IN  IF ~ok THEN Respond(p, stage, Resp(500, CatchMessage(q.kind)))
        ELSE IF p.up[Other(kind)] = "ok"
             THEN Step(p, stage, IF q.kind = "create" THEN "save" ELSE "destroy_image")
        ELSE Step(p, stage, "upload")

Upload(r, kind) ==
    /\ reqs[r].pc = "upload"
    /\ reqs[r].up[kind] = "pending"
    /\ Turn(r)
    /\ \E ok \in BOOLEAN, stray \in BOOLEAN :
        \* The upload still in flight when Promise.all rejects settles on its
        \* own; nobody reads its result, so it is settled in the same step.
        /\ stray => ~ok /\ reqs[r].up[Other(kind)] = "pending"
        /\ Commit(r, uploadSettled(reqs[r], kind, ok))
        /\ assets' = assets \cup (IF ok THEN {getPublicIdFromUrl(Url(r, kind))} ELSE {})
                            \cup (IF stray THEN {getPublicIdFromUrl(Url(r, Other(kind)))} ELSE {})
        /\ failed' = IF ok THEN failed ELSE failed \cup {r}
    /\ UNCHANGED <<products, nextId, deleted>>

\* The assignment of the new pair with the thumbnail left out.
setImagesImageOnly(q) ==
    [q EXCEPT !.doc.image = Url(q.n, "image"), !.mod = @ \cup {"image"}]

\* product.image = imageResult.secure_url and product.thumbnail_image =
\* thumbnailResult.secure_url: the loaded document points at the new pair.
setImages(q) ==
    [q EXCEPT !.doc.image = Url(q.n, "image"),
              !.doc.thumbnail_image = Url(q.n, "thumb"),
              !.mod = @ \cup {"image", "thumbnail_image"}]

\* await cloudinary.uploader.destroy(getPublicIdFromUrl(url)): a rejection is
\* thrown into the handler's catch.  After the second one an update points the
\* loaded document at the new pair.
destroySettled(q, kind, ok) ==
    LET stage == IF kind = "image" THEN "destroy_image" ELSE "destroy_thumb"
        p == [q EXCEPT !.gone[kind] = IF ok THEN "ok" ELSE "fail"]
    IN  IF ~ok THEN Respond(p, stage, Resp(500, CatchMessage(q.kind)))
        ELSE IF kind = "image" THEN Step(p, stage, "destroy_thumb")
        ELSE IF q.kind = "delete" THEN Step(p, stage, "remove")
        ELSE Step(setImages(p), stage, "save")

OldUrl(q, kind) == IF kind = "image" THEN q.doc.image ELSE q.doc.thumbnail_image

Destroy(r, kind) ==
    /\ reqs[r].pc = (IF kind = "image" THEN "destroy_image" ELSE "destroy_thumb")
    /\ Turn(r)
    /\ \E ok \in BOOLEAN :
        /\ Commit(r, destroySettled(reqs[r], kind, ok))
        /\ assets' = IF ok THEN assets \ {getPublicIdFromUrl(OldUrl(reqs[r], kind))} ELSE assets
    /\ UNCHANGED <<products, nextId, deleted, failed>>

\* ------------------------------------------------------------ persistence
NewDoc(q) ==
    [name |-> q.body.name, title |-> q.body.title, description |-> q.body.description,
     category_id |-> q.body.category_id, price |-> q.body.price,
     quantity |-> q.body.quantity,
     image |-> Url(q.n, "image"), thumbnail_image |-> Url(q.n, "thumb")]

Insert(store, id, doc) == [i \in DOMAIN store \cup {id} |-> IF i = id THEN doc ELSE store[i]]

\* POST: await newProduct.save(), then 201.
CreateSave(r) ==
    /\ reqs[r].pc = "save"
    /\ reqs[r].kind = "create"
    /\ Turn(r)
    /\ products' = Insert(products, nextId, NewDoc(reqs[r]))
    /\ nextId' = nextId + 1
    /\ Commit(r, Respond([reqs[r] EXCEPT !.id = nextId], "save",
                         Resp(201, "Product added successfully")))
    /\ UNCHANGED <<assets, deleted, failed>>

\* PUT: await product.save(), then 200.  Saving a document that is no longer
\* stored throws DocumentNotFoundError.
UpdateSave(r) ==
    /\ reqs[r].pc = "save"
    /\ reqs[r].kind = "update"
    /\ Turn(r)
    /\ products' = documentSave(products, reqs[r].id, reqs[r].doc, reqs[r].mod)
    /\ Commit(r, IF Stored(reqs[r].id)
                 THEN Respond(reqs[r], "save", Resp(200, "Product updated successfully"))
                 ELSE Respond(reqs[r], "save", Resp(500, "Error updating product")))
    /\ UNCHANGED <<nextId, assets, deleted, failed>>

Remove(store, id) == [i \in DOMAIN store \ {id} |-> store[i]]

\* DELETE: await Product.findByIdAndDelete(id), then 200.
DeleteRemove(r) ==
    /\ reqs[r].pc = "remove"
    /\ Turn(r)
    /\ products' = Remove(products, reqs[r].id)
    /\ deleted' = deleted \cup {reqs[r].id}
    /\ Commit(r, Respond(reqs[r], "remove", Resp(200, "Product deleted successfully")))
    /\ UNCHANGED <<nextId, assets, failed>>

\* ---------------------------------------------------------------- listing
\* GET /api/products: the query is read and countDocuments resolves.
listCounted(q, query) ==
    LET p == [q EXCEPT !.query = query,
                       !.page = OrDefault(parseInt(query.page), DefaultPage),
                       !.limit = OrDefault(parseInt(query.perPage), DefaultLimit)]
    IN  IF QueryThrows(query) THEN Respond(p, "count", Resp(500, "Error fetching products"))
        ELSE Step([p EXCEPT !.total = Cardinality({i \in DOMAIN products :
                                                      Matches(products[i], query)})],
                  "count", "page")

ListCount(r) ==
    /\ reqs[r].pc = "count"
    /\ Turn(r)
    /\ \E query \in Queries : Commit(r, listCounted(reqs[r], query))
    /\ UNCHANGED <<products, nextId, assets, deleted, failed>>

\* find(query).skip((page - 1) * limit).limit(limit) resolves (the store
\* rejects a negative skip) and the page is answered.
listFound(q) ==
    LET skip == (q.page - 1) * q.limit
        ids == Sorted({i \in DOMAIN products : Matches(products[i], q.query)})
    IN  IF skip < 0 THEN Respond(q, "page", Resp(500, "Error fetching products"))
        ELSE Respond([q EXCEPT !.found = Page(ids, skip, q.limit),
                               !.pages = MathCeilDiv(q.total, q.limit)],
                     "page", Resp(200, "Products fetched successfully"))

ListFind(r) ==
    /\ reqs[r].pc = "page"
    /\ Turn(r)
    /\ Commit(r, listFound(reqs[r]))
    /\ UNCHANGED <<products, nextId, assets, deleted, failed>>

\* ------------------------------------------------------------------ login
\* POST /api/login: validateuser runs, then the handler up to findOne.
LoginValidate(r) ==
    /\ reqs[r].pc = "validate"
    /\ reqs[r].kind = "login"
    /\ \E cred \in Creds :
        Commit(r, Step([reqs[r] EXCEPT !.cred = cred, !.errors = validateuser(cred)],
                       "validate", "handler"))
    /\ UNCHANGED <<products, nextId, assets, deleted, failed>>

loginHandler(q) ==
    IF q.errors # NoErrors THEN Respond(q, "handler", Resp(400, "Validation failed"))
    ELSE Step(q, "handler", "user")

LoginHandler(r) ==
    /\ reqs[r].pc = "handler"
    /\ reqs[r].kind = "login"
    /\ Commit(r, loginHandler(reqs[r]))
    /\ UNCHANGED <<products, nextId, assets, deleted, failed>>

\* A login that tells an unknown email from a wrong password.
loginLoadedTelling(q) ==
    IF ~\E u \in Users : u.email = q.cred.email
    THEN Respond(q, "user", Resp(404, "User not found"))
    ELSE LET u == CHOOSE v \in Users : v.email = q.cred.email
         IN  IF u.password = q.cred.password
             THEN Respond(q, "user", RespToken(200, "Login successful", jwtSign(u.id)))
             ELSE Respond(q, "user", Resp(400, "Invalid email or password"))

\* User.findOne({ email }) resolves: !user || user.password !== password.
loginLoaded(q) ==
    IF \E u \in Users : u.email = q.cred.email /\ u.password = q.cred.password
    THEN LET u == CHOOSE v \in Users : v.email = q.cred.email
         IN  Respond(q, "user", RespToken(200, "Login successful", jwtSign(u.id)))
    ELSE Respond(q, "user", Resp(400, "Invalid email or password"))

LoginFind(r) ==
    /\ reqs[r].pc = "user"
    /\ reqs[r].kind = "login"
    /\ Commit(r, loginLoaded(reqs[r]))
    /\ UNCHANGED <<products, nextId, assets, deleted, failed>>

ProductKinds == {"create", "update", "delete", "get", "me"}

Next ==
    \/ \E r \in Reqs, kind \in ProductKinds : Receive(r, kind)
    \/ \E r \in Reqs : Authenticate(r)
    \/ \E r \in Reqs : HandleUpload(r, Files)
    \/ \E r \in Reqs : Validate(r, FewBodies)
    \/ \E r \in Reqs : Handler(r)
    \/ \E r \in Reqs : UpdateFind(r)
    \/ \E r \in Reqs : DeleteFind(r)
    \/ \E r \in Reqs : GetFind(r)
    \/ \E r \in Reqs : MeFind(r)
    \/ \E r \in Reqs, kind \in {"image", "thumb"} : Upload(r, kind)
    \/ \E r \in Reqs, kind \in {"image", "thumb"} : Destroy(r, kind)
    \/ \E r \in Reqs : CreateSave(r)
    \/ \E r \in Reqs : UpdateSave(r)
    \/ \E r \in Reqs : DeleteRemove(r)

Spec == InitSeeded /\ [][Next]_vars

\* Updates alone, with every body.
NextFields ==
    \/ \E r \in 1..MaxFieldReq : Receive(r, "update")
    \/ \E r \in Reqs : Authenticate(r)
    \/ \E r \in Reqs : HandleUpload(r, FewFiles)
    \/ \E r \in Reqs : Validate(r, Bodies)
    \/ \E r \in Reqs : Handler(r)
    \/ \E r \in Reqs : UpdateFind(r)
    \/ \E r \in Reqs, kind \in {"image", "thumb"} : Upload(r, kind)
    \/ \E r \in Reqs, kind \in {"image", "thumb"} : Destroy(r, kind)
    \/ \E r \in Reqs : UpdateSave(r)

SpecFields == Init /\ [][NextFields]_vars

\* Listings next to deletes, over a store of up to MaxListSeed products.
InitList == \E n \in 0..MaxListSeed : InitWith(n)

NextList ==
    \/ \E r \in 1..MaxListReq, kind \in {"list", "delete"} : Receive(r, kind)
    \/ \E r \in Reqs : ListCount(r)
    \/ \E r \in Reqs : ListFind(r)
    \/ \E r \in Reqs : Authenticate(r)
    \/ \E r \in Reqs : Validate(r, FewBodies)
    \/ \E r \in Reqs : Handler(r)
    \/ \E r \in Reqs : DeleteFind(r)
    \/ \E r \in Reqs, kind \in {"image", "thumb"} : Destroy(r, kind)
    \/ \E r \in Reqs : DeleteRemove(r)

SpecList == InitList /\ [][NextList]_vars

\* Logins alone.
NextLogin ==
    \/ \E r \in Reqs : Receive(r, "login")
    \/ \E r \in Reqs : LoginValidate(r)
    \/ \E r \in Reqs : LoginHandler(r)
    \/ \E r \in Reqs : LoginFind(r)

SpecLogin == Init /\ [][NextLogin]_vars

\* ------------------------------------------------------------- properties
Answered == last.pc = "done"

Batches == (0 - MaxSeed - 1)..MaxReq

References(doc, batch) ==
    doc.image = Url(batch, "image") \/ doc.thumbnail_image = Url(batch, "thumb")

LastStep(q) == q.steps[Len(q.steps)]

\* C1: a request to a bearer-guarded route that carries no Authorization
\* header is answered 401 "No token provided" by the guard, and the guard is
\* the only stage that ever runs for it: no request past the guard lacks the
\* header.
NoTokenRejected ==
    /\ (Answered /\ last.kind \in Guarded /\ last.hdr = NoHeader) =>
           /\ last.resp = Resp(401, "No token provided")
           /\ last.steps = <<"auth">>
    /\ \A r \in Reqs :
           (reqs[r].kind \in Guarded /\ reqs[r].pc \notin {"idle", "auth", "done"}) =>
               reqs[r].hdr # NoHeader

NoTokenWitness ==
    /\ Answered /\ last.kind = "delete" /\ last.hdr = NoHeader
    /\ last.resp.status = 401
    /\ products # <<>>

\* C2: the image and the thumbnail URL of every stored product come from the
\* same upload batch (the same request, or the same seed).
MatchedPair ==
    \A id \in DOMAIN products :
        \E b \in Batches :
            /\ products[id].image = Url(b, "image")
            /\ products[id].thumbnail_image = Url(b, "thumb")

\* Two updates with a new file on one product: the second has stored its
\* pair while the first, which loaded the product before, is about to save.
MatchedPairWitness ==
    \E id \in DOMAIN products :
        /\ reqs[1].kind = "update" /\ reqs[1].pc = "save" /\ reqs[1].id = id
        /\ "image" \in reqs[1].mod
        /\ products[id].image = Url(2, "image")

\* C3: the save of an update leaves every stored field the request omitted
\* as it was, and the stored pair of URLs as it was if the request carried no
\* file.
OmittedFieldUnchanged ==
    [][\A r \in Reqs :
          (reqs[r].kind = "update" /\ reqs[r].pc = "save" /\ reqs'[r].pc = "done") =>
              /\ DOMAIN products' = DOMAIN products
              /\ \A id \in DOMAIN products :
                    /\ \A f \in Fields :
                          reqs[r].body[f] = "absent" => products'[id][f] = products[id][f]
                    /\ reqs[r].file = NoFile =>
                          /\ products'[id].image = products[id].image
                          /\ products'[id].thumbnail_image = products[id].thumbnail_image]_vars

OmittedFieldWitness ==
    /\ Answered /\ last.kind = "update" /\ last.resp.status = 200
    /\ last.body.name = "absent" /\ last.body.title = "a" /\ last.file = NoFile
    /\ products[last.id].name = SeedValue
    /\ products[last.id].title = "a"
    /\ products[last.id].image = SeedDoc(last.id).image

\* C4: a product a DELETE has answered 200 for is never stored again, and a
\* GET of it is answered 404.
DeletedStaysGone ==
    /\ deleted \cap DOMAIN products = {}
    /\ (Answered /\ last.kind = "get" /\ last.id \in deleted) => last.resp.status = 404

DeletedWitness ==
    /\ Answered /\ last.kind = "get" /\ last.id \in deleted
    /\ last.resp = Resp(404, "Product not found")

\* C5: an update or a delete whose removal of a prior remote asset failed is
\* answered 200 all the same.
DestroyFailureSwallowed ==
    (Answered /\ last.kind \in {"update", "delete"}
              /\ "fail" \in {last.gone.image, last.gone.thumb}) =>
        last.resp.status = 200

\* C8: a create one of whose uploads failed is answered 500, and no stored
\* product ever references the batch of a request one of whose uploads failed.
UploadFailureAborts ==
    /\ (Answered /\ last.kind = "create" /\ "fail" \in {last.up.image, last.up.thumb}) =>
           last.resp = Resp(500, "Error processing upload")
    /\ \A id \in DOMAIN products : \A r \in failed : ~References(products[id], r)
    /\ (Answered /\ last.kind = "create" /\ last.resp.status = 201) =>
           /\ last.up = [image |-> "ok", thumb |-> "ok"]
           /\ last.n \notin failed

UploadFailureWitness ==
    /\ Answered /\ last.kind = "create"
    /\ last.up = [image |-> "ok", thumb |-> "fail"]
    /\ last.resp.status = 500

\* C9: every upload error fails the request at the intake: a file over the
\* ceiling with 400 and a field-scoped image error, any other error with 500,
\* and no later stage runs for the request.
UploadErrorsFailRequest ==
    /\ \A r \in Reqs : reqs[r].intake \in UploadOutcomes \ {"ok"} => reqs[r].pc = "done"
    /\ (Answered /\ last.intake = "LIMIT_FILE_SIZE") =>
           /\ last.resp = RespErr(400, "Image size is too large", "image: File too large")
           /\ last.steps = <<"auth", "intake">>
    /\ (Answered /\ last.intake \in {"LIMIT_UNEXPECTED_FILE", "stream error"}) =>
           /\ last.resp.status = 500
           /\ last.steps = <<"auth", "intake">>

\* C6: a listing answered 200 reports totalPages = ceil(totalProducts /
\* productsPerPage) and carries at most productsPerPage products.
IsCeil(p, t, l) ==
    IF l > 0 THEN p * l >= t /\ (p - 1) * l < t
    ELSE p * l <= t /\ (p - 1) * l > t

PageArithmetic ==
    (Answered /\ last.kind = "list" /\ last.resp.status = 200) =>
        /\ IsCeil(last.pages, last.total, last.limit)
        /\ Len(last.found) <= last.limit

\* C7: a login with both fields filled in that does not name a user and that
\* user's password is answered 400 "Invalid email or password", the same
\* response whether the email is unknown or the password wrong; one with an
\* empty field is answered the same whoever it names.
Known(email) == \E u \in Users : u.email = email

InvalidLoginUniform ==
    (Answered /\ last.kind = "login") =>
        /\ (\/ last.cred.email = ""
            \/ last.cred.password = "") => last.resp = Resp(400, "Validation failed")
        /\ (/\ last.cred.email # ""
            /\ last.cred.password # ""
            /\ ~\E u \in Users : u.email = last.cred.email /\ u.password = last.cred.password)
               => last.resp = Resp(400, "Invalid email or password")

\* A known email with another user's password, the lookup done.
InvalidLoginWitness ==
    /\ Answered /\ last.kind = "login" /\ LastStep(last) = "user"
    /\ Known(last.cred.email)
    /\ last.cred.password = "pw2" /\ last.cred.email = "ann@x"
    /\ last.resp.status = 400

\* C10: the stages of a mutating request run in the order guard, intake,
\* validation, handler, load, uploads, removals, write; an error at a stage
\* ends the request there; a create starts its uploads only past the guard,
\* with no validation error and a JPEG or PNG file; a product is inserted
\* only by a create both of whose uploads succeeded; a request is answered
\* once, when it ends.
Mutating == {"create", "update", "delete"}

Seen ==
    {reqs[r] : r \in {s \in Reqs : reqs[s].kind \in Mutating /\ reqs[s].steps # <<>>}}
        \cup (IF Answered /\ last.kind \in Mutating THEN {last} ELSE {})

Rank(stage) ==
    CASE stage = "auth" -> 1
      [] stage = "intake" -> 2
      [] stage = "validate" -> 3
      [] stage = "handler" -> 4
      [] stage = "find" -> 5
      [] stage \in {"upload_image", "upload_thumb"} -> 6
      [] stage = "destroy_image" -> 7
      [] stage = "destroy_thumb" -> 8
      [] OTHER -> 9

InOrder(q) ==
    /\ q.steps[1] = "auth"
    /\ \A i \in 1..(Len(q.steps) - 1) :
          \/ Rank(q.steps[i]) < Rank(q.steps[i + 1])
          \/ Rank(q.steps[i]) = 6 /\ Rank(q.steps[i + 1]) = 6 /\ q.steps[i] # q.steps[i + 1]

ShortCircuits(q) ==
    /\ q.intake \in UploadOutcomes \ {"ok"} => LastStep(q) = "intake" /\ q.pc = "done"
    /\ q.errors # NoErrors => LastStep(q) \in {"validate", "handler"}
    /\ "fail" \in {q.up.image, q.up.thumb} => Rank(LastStep(q)) = 6 /\ q.pc = "done"
    /\ "fail" \in {q.gone.image, q.gone.thumb} => Rank(LastStep(q)) \in {7, 8} /\ q.pc = "done"
    /\ q.resp.status >= 400 => q.pc = "done"

StagesInOrder == \A q \in Seen : InOrder(q)

ErrorsShortCircuit == \A q \in Seen : ShortCircuits(q)

OneResponse == \A r \in Reqs : reqs[r].nresp = IF reqs[r].pc = "done" THEN 1 ELSE 0

UploadsGuarded ==
    \A r \in Reqs :
        (reqs[r].kind = "create" /\ reqs[r].pc # "upload" /\ reqs'[r].pc = "upload") =>
            /\ jwtVerify(BearerToken(reqs[r].hdr)) # "throw"
            /\ reqs[r].errors = NoErrors
            /\ reqs[r].file \in {"image/jpeg", "image/png"}
            /\ reqs[r].steps = <<"auth", "intake", "validate">>

InsertsGuarded ==
    nextId' # nextId =>
        \E r \in Reqs :
            /\ reqs[r].kind = "create" /\ reqs[r].pc = "save"
            /\ reqs[r].up = [image |-> "ok", thumb |-> "ok"]
            /\ products' = Insert(products, nextId, NewDoc(reqs[r]))

RequestLifecycle ==
    /\ [](StagesInOrder /\ ErrorsShortCircuit /\ OneResponse)
    /\ [][UploadsGuarded /\ InsertsGuarded]_vars

\* The parts of the lifecycle apart from the intake's errors.
ShortCircuitsPastIntake ==
    \A q \in Seen : q.intake \notin {"LIMIT_UNEXPECTED_FILE"} => ShortCircuits(q)

LifecyclePastIntake ==
    /\ [](StagesInOrder /\ ShortCircuitsPastIntake /\ OneResponse)
    /\ [][UploadsGuarded /\ InsertsGuarded]_vars

\* C11: once every request received has been answered, the image and the
\* thumbnail of every stored product are assets the media host still holds.
Quiescent == \A r \in Reqs : reqs[r].pc \in {"idle", "done"}

Held(url) == getPublicIdFromUrl(url) \in assets

NoDanglingReference ==
    Quiescent =>
        \A id \in DOMAIN products :
            Held(products[id].image) /\ Held(products[id].thumbnail_image)

\* C12: a step of an update request changes the stored products only if it
\* answers the request 200: an update answered with any other status has
\* written nothing, whatever values it carried.
FailedUpdateWritesNothing ==
    [][\A r \in Reqs :
          (/\ reqs[r].kind = "update"
           /\ reqs'[r] # reqs[r]
           /\ ~(last'.pc = "done" /\ last'.n = r /\ last'.resp.status = 200))
              => products' = products]_vars

\* An update with valid new values and a file of a type not allowed, answered
\* 400 with the product as it was stored.
FailedUpdateWitness ==
    /\ Answered /\ last.kind = "update" /\ last.resp.status = 400
    /\ last.file = "image/gif" /\ last.errors = NoErrors
    /\ last.body.name = "a" /\ last.doc.name = "a"
    /\ Stored(last.id) /\ products[last.id] = SeedDoc(last.id)

====
